---- MODULE Spec2Model ----
(***************************************************************************)
(* State-machine model of the FlowVisualizer component                     *)
(* (src/FlowVisualizer.tsx): viewport scale/offset, node store, drag/pan   *)
(* interaction state, the deferred autoFit timers and the host actions.    *)
(*                                                                         *)
(* JavaScript numbers are modelled as exact rationals <<n, d>> (d > 0, in  *)
(* lowest terms); floating-point rounding is not modelled.  The container  *)
(* rectangles of Rects never have a width or height equal to the autoFit   *)
(* padding, so no reachable scale is 0 and no division by zero occurs; the *)
(* rectangle is chosen at mount and stays as it is.                        *)
(* A state update and the re-registration of the effects that depend on it *)
(* (window listeners, host actions) are one atomic step.                   *)
(* A pointer-down may hit any node or the canvas wherever the cursor is:   *)
(* hit testing is not modelled.                                            *)
(***************************************************************************)
EXTENDS Integers, Sequences, FiniteSets, TLC

VARIABLES nodes, dragging, scale, offset, isPanning, panStart,
          flow, timers, rect, cursor, registered, ev, zoomed, fitted, panFrom, ops,
          loading, isDeploying, abortControllerRef, requests

\* the state of the FlowVisualizer component and of the host App (src/App.tsx)
vizVars == <<nodes, dragging, scale, offset, isPanning, panStart,
             flow, timers, rect, cursor, registered, ev, zoomed, fitted, panFrom, ops>>
appVars == <<loading, isDeploying, abortControllerRef, requests>>
vars == <<vizVars, appVars>>

(***************************************************************************)
(* Bounds of the model.                                                    *)
(***************************************************************************)
MaxOps == 2
\* the number of generation requests the host App sends
MaxRequests == 3

(***************************************************************************)
(* Exact rational arithmetic standing for JavaScript number arithmetic.    *)
(***************************************************************************)
Abs(i) == IF i < 0 THEN -i ELSE i

RECURSIVE GCD(_, _)
GCD(a, b) == IF b = 0 THEN a ELSE GCD(b, a % b)

Norm(n, d) ==
  LET g == GCD(Abs(n), Abs(d))
      s == IF d < 0 THEN -1 ELSE 1
  IN  <<(s * n) \div g, (s * d) \div g>>

R(i) == <<i, 1>>

\* a and b are in lowest terms; common factors are divided out before multiplying
Add(a, b) ==
  IF a[2] = 1 /\ b[2] = 1 THEN <<a[1] + b[1], 1>>
  ELSE LET g == GCD(a[2], b[2])
       IN  Norm(a[1] * (b[2] \div g) + b[1] * (a[2] \div g), (a[2] \div g) * b[2])

Neg(a) == <<-a[1], a[2]>>
Sub(a, b) == Add(a, Neg(b))

Mul(a, b) ==
  IF a[2] = 1 /\ b[2] = 1 THEN <<a[1] * b[1], 1>>
  ELSE LET g1 == GCD(Abs(a[1]), b[2])
           g2 == GCD(Abs(b[1]), a[2])
       IN  <<(a[1] \div g1) * (b[1] \div g2), (a[2] \div g2) * (b[2] \div g1)>>

\* 1 / b, for b # 0
Inv(b) == IF b[1] < 0 THEN <<-b[2], -b[1]>> ELSE <<b[2], b[1]>>
Div(a, b) == Mul(a, Inv(b))

\* a1/a2 < b1/b2 for a2, b2 > 0, by integer parts and then the reciprocals of the
\* fractional parts, so that no product is formed
RECURSIVE LessFrac(_, _, _, _)
LessFrac(a1, a2, b1, b2) ==
  LET qa == a1 \div a2
      qb == b1 \div b2
      ra == a1 % a2
      rb == b1 % b2
  IN  IF qa # qb THEN qa < qb
      ELSE IF rb = 0 THEN FALSE
      ELSE IF ra = 0 THEN TRUE
      ELSE LessFrac(b2, rb, a2, ra)

Less(a, b) == LessFrac(a[1], a[2], b[1], b[2])

Leq(a, b) == ~Less(b, a)
MinR(a, b) == IF Less(b, a) THEN b ELSE a
MaxR(a, b) == IF Less(a, b) THEN b ELSE a

Pt(x, y) == [x |-> x, y |-> y]

(***************************************************************************)
(* Program constants.                                                      *)
(***************************************************************************)
ZoomInFactor == <<11, 10>>
ZoomOutFactor == <<9, 10>>
MinScale == <<1, 10>>
MaxScale == <<3, 1>>
InitScale == <<4, 5>>
InitOffset == Pt(R(100), R(100))
FitPadding == 150
FitNodeWidth == 320
FitNodeHeight == 400
FitMaxScale == <<4, 5>>
DefaultWidth == 320
DefaultHeight == 400
AnchorTop == 85
AnchorPitch == 45
AnchorNodeWidth == 320

(***************************************************************************)
(* Inputs: graph documents (the flow prop), container rectangles, pointer  *)
(* positions.  An optional field is <<>> when absent and <<v>> when set.   *)
(***************************************************************************)
DocNode(id, pos, w, h, ins, outs) ==
  [id |-> id, position |-> pos, width |-> w, height |-> h,
   data |-> [inputAnchors |-> ins, outputAnchors |-> outs]]

Edge(id, s, sh, t, th) ==
  [id |-> id, source |-> s, sourceHandle |-> sh, target |-> t, targetHandle |-> th]

Docs ==
  [ two |->
      [nodes |-> << DocNode("A", <<Pt(R(0), R(0))>>, <<320>>, <<400>>, <<>>, <<"o0">>),
                    DocNode("B", <<Pt(R(500), R(0))>>, <<>>, <<900>>, <<"i0", "i1">>, <<>>) >>,
       edges |-> << Edge("e1", "A", <<"o0">>, "B", <<"i0">>),
                    Edge("e2", "B", <<"o0">>, "A", <<"i1">>) >>],
    three |->
      [nodes |-> << DocNode("A", <<Pt(R(100), R(100))>>, <<200>>, <<0>>, <<"i0">>, <<"o0", "o1">>),
                    DocNode("C", <<>>, <<>>, <<>>, <<>>, <<"o0">>),
                    DocNode("D", <<Pt(R(16680), R(-100))>>, <<640>>, <<900>>, <<"i0">>, <<>>) >>,
       edges |-> << Edge("e1", "A", <<"o1">>, "D", <<"zz">>),
                    Edge("e2", "C", <<>>, "X", <<"i0">>) >>],
    empty |-> [nodes |-> <<>>, edges |-> <<>>] ]

DocNames == DOMAIN Docs

Rects ==
  { [left |-> 0, top |-> 0, width |-> 1000, height |-> 800],
    [left |-> 40, top |-> 20, width |-> 0, height |-> 0] }

Points == { <<100, 100>>, <<140, 120>> }
InitCursor == <<100, 100>>

NoDrag == <<>>
\* abortControllerRef.current = null; a controller is named by its request's number
NoController == 0

(***************************************************************************)
(* handleZoom (lines 37-53).                                               *)
(***************************************************************************)
\* mutant: zoom-out by the reciprocal of the zoom-in factor
Factor_Reciprocal(direction) == IF direction = "in" THEN ZoomInFactor ELSE Inv(ZoomInFactor)

Factor(direction) == IF direction = "in" THEN ZoomInFactor ELSE ZoomOutFactor

\* mutant: the upper limit is not applied
Clamp_NoUpper(s) == MaxR(s, MinScale)

Clamp(s) == MinR(MaxR(s, MinScale), MaxScale)

NewScale(s, direction) == Clamp(Mul(s, Factor(direction)))

\* mutant: the scale ratio is inverted
AnchorOffset_InverseRatio(x, o, newScale, s) == Sub(x, Mul(Sub(x, o), Div(s, newScale)))

\* offset component after an anchored zoom: x - (x - offset.x) * (newScale / scale)
AnchorOffset(x, o, newScale, s) == Sub(x, Mul(Sub(x, o), Div(newScale, s)))

ZoomOffset(o, s, newScale, clientX, clientY, rc) ==
  LET x == R(clientX - rc.left)
      y == R(clientY - rc.top)
  IN  Pt(AnchorOffset(x, o.x, newScale, s), AnchorOffset(y, o.y, newScale, s))

(***************************************************************************)
(* autoFit (lines 60-76).  The forEach over currentNodes folds the four    *)
(* extremes starting from +/-Infinity, i.e. from the first node's values.  *)
(***************************************************************************)
RECURSIVE FitBounds(_, _, _)
FitBounds(currentNodes, i, acc) ==
  IF i > Len(currentNodes) THEN acc
  ELSE LET n == currentNodes[i]
           right == Add(n.position.x, R(FitNodeWidth))
           bottom == Add(n.position.y, R(FitNodeHeight))
       IN  FitBounds(currentNodes, i + 1,
             IF i = 1
             THEN [minX |-> n.position.x, minY |-> n.position.y,
                   maxX |-> right, maxY |-> bottom]
             ELSE [minX |-> MinR(acc.minX, n.position.x),
                   minY |-> MinR(acc.minY, n.position.y),
                   maxX |-> MaxR(acc.maxX, right),
                   maxY |-> MaxR(acc.maxY, bottom)])

\* mutant: the fit scale is not capped at 0.8
FitScale_NoCap(b, rc) ==
  LET cw == Sub(b.maxX, b.minX)
      ch == Sub(b.maxY, b.minY)
  IN  MinR(Div(R(rc.width - FitPadding), cw), Div(R(rc.height - FitPadding), ch))

FitScale(b, rc) ==
  LET cw == Sub(b.maxX, b.minX)
      ch == Sub(b.maxY, b.minY)
  IN  MinR(MinR(Div(R(rc.width - FitPadding), cw),
                Div(R(rc.height - FitPadding), ch)),
           FitMaxScale)

FitOffset(b, rc, s) ==
  Pt(Sub(Div(R(rc.width), R(2)), Mul(Div(Add(b.minX, b.maxX), R(2)), s)),
     Sub(Div(R(rc.height), R(2)), Mul(Div(Add(b.minY, b.maxY), R(2)), s)))

\* mutant: an empty node set resets the viewport instead of returning early
autoFit_NoEmptyGuard(currentNodes, rc, s, o) ==
  IF Len(currentNodes) = 0
  THEN [scale |-> FitMaxScale,
        offset |-> Pt(Div(R(rc.width), R(2)), Div(R(rc.height), R(2)))]
  ELSE LET b == FitBounds(currentNodes, 1, <<>>)
           fs == FitScale(b, rc)
       IN  [scale |-> fs, offset |-> FitOffset(b, rc, fs)]

\* mutant: the fitted offset is added to the current offset
autoFit_ShiftsOffset(currentNodes, rc, s, o) ==
  IF Len(currentNodes) = 0 THEN [scale |-> s, offset |-> o]
  ELSE LET b == FitBounds(currentNodes, 1, <<>>)
           fs == FitScale(b, rc)
           fo == FitOffset(b, rc, fs)
       IN  [scale |-> fs, offset |-> Pt(Add(o.x, fo.x), Add(o.y, fo.y))]

\* the viewport [scale, offset] after autoFit(currentNodes)
autoFit(currentNodes, rc, s, o) ==
  IF Len(currentNodes) = 0 THEN [scale |-> s, offset |-> o]
  ELSE LET b == FitBounds(currentNodes, 1, <<>>)
           fs == FitScale(b, rc)
       IN  [scale |-> fs, offset |-> FitOffset(b, rc, fs)]

(***************************************************************************)
(* The load effect on flow (lines 88-99).  Every document of Docs has a     *)
(* nodes array (FlowiseFlow.nodes is required), so the guard of line 89    *)
(* holds for each load.                                                    *)
(***************************************************************************)
SanitizeNode(n) ==
  [id |-> n.id,
   position |-> IF n.position = <<>> THEN Pt(R(0), R(0)) ELSE n.position[1],
   width |-> IF n.width = <<>> \/ n.width = <<0>> THEN DefaultWidth ELSE n.width[1],
   height |-> IF n.height = <<>> \/ n.height = <<0>> THEN DefaultHeight ELSE n.height[1],
   data |-> n.data]

Sanitize(docNodes) == [i \in 1..Len(docNodes) |-> SanitizeNode(docNodes[i])]

(***************************************************************************)
(* onMouseMove (lines 102-113).                                            *)
(***************************************************************************)
\* mutant: the screen delta is not divided by the scale
DragPosition_Unscaled(d, clientX, clientY, s) ==
  Pt(Add(d.nodeX, R(clientX - d.startX)), Add(d.nodeY, R(clientY - d.startY)))

DragPosition(d, clientX, clientY, s) ==
  LET dx == Div(R(clientX - d.startX), s)
      dy == Div(R(clientY - d.startY), s)
  IN  Pt(Add(d.nodeX, dx), Add(d.nodeY, dy))

\* mutant: the id test is missing, every node takes the dragged position
MoveNode_EveryNode(prev, d, clientX, clientY, s) ==
  [i \in 1..Len(prev) |->
     [prev[i] EXCEPT !.position = DragPosition(d, clientX, clientY, s)]]

MoveNode(prev, d, clientX, clientY, s) ==
  [i \in 1..Len(prev) |->
     IF prev[i].id = d.id
     THEN [prev[i] EXCEPT !.position = DragPosition(d, clientX, clientY, s)]
     ELSE prev[i]]

PanOffset(clientX, clientY, ps) == Pt(Sub(R(clientX), ps.x), Sub(R(clientY), ps.y))

(***************************************************************************)
(* getAnchorPos (lines 120-132) and the edge end points (lines 147-148).   *)
(* An anchor list holds the anchors' ids; a list that is absent from the   *)
(* document is <<>>, which is what `|| []` makes of it.                    *)
(***************************************************************************)
\* nodes.find(n => n.id === nodeId): <<>> if there is none, else <<the first>>
FindNode(ns, nodeId) ==
  IF \A i \in 1..Len(ns) : ns[i].id # nodeId THEN <<>>
  ELSE <<ns[CHOOSE i \in 1..Len(ns) :
              ns[i].id = nodeId /\ \A j \in 1..(i - 1) : ns[j].id # nodeId]>>

\* anchors.findIndex(a => a.id === handleId), counted from 0
FindIndex(anchors, handleId) ==
  IF \A k \in 1..Len(anchors) : anchors[k] # handleId THEN -1
  ELSE (CHOOSE k \in 1..Len(anchors) :
          anchors[k] = handleId /\ \A j \in 1..(k - 1) : anchors[j] # handleId) - 1

\* mutant: the index is used as findIndex returned it
ValidIndex_Raw(index) == index

ValidIndex(index) == IF index = -1 THEN 0 ELSE index

Anchors(node, type) ==
  IF type = "input" THEN node.data.inputAnchors ELSE node.data.outputAnchors

\* mutant: an output anchor sits at the node's own width
getAnchorPos_NodeWidth(nodeId, handleId, type) ==
  LET found == FindNode(nodes, nodeId)
  IN  IF found = <<>> THEN Pt(R(0), R(0))
      ELSE LET node == found[1]
               validIndex == ValidIndex(FindIndex(Anchors(node, type), handleId))
               baseY == Add(node.position.y, R(AnchorTop + validIndex * AnchorPitch))
               baseX == IF type = "input" THEN node.position.x
                        ELSE Add(node.position.x, R(node.width))
           IN  Pt(baseX, baseY)

getAnchorPos(nodeId, handleId, type) ==
  LET found == FindNode(nodes, nodeId)
  IN  IF found = <<>> THEN Pt(R(0), R(0))
      ELSE LET node == found[1]
               validIndex == ValidIndex(FindIndex(Anchors(node, type), handleId))
               baseY == Add(node.position.y, R(AnchorTop + validIndex * AnchorPitch))
               baseX == IF type = "input" THEN node.position.x
                        ELSE Add(node.position.x, R(AnchorNodeWidth))
           IN  Pt(baseX, baseY)

\* edge.sourceHandle || '' and edge.targetHandle || ''
HandleOf(h) == IF h = <<>> THEN "" ELSE h[1]
EdgeStart(edge) == getAnchorPos(edge.source, HandleOf(edge.sourceHandle), "output")
EdgeEnd(edge) == getAnchorPos(edge.target, HandleOf(edge.targetHandle), "input")
\* the edges drawn: those of the flow prop
Edges == Docs[flow].edges

\* ev: the most recent event and its input; zoomed: the viewports from which the
\* latest uninterrupted run of handleZoom calls started, oldest first (at most two).
Event(op, direction, deltaY) == [op |-> op, dir |-> direction, deltaY |-> deltaY]

ZoomRecord(op, direction) ==
  LET z == [op |-> op, dir |-> direction, scale |-> scale, offset |-> offset]
  IN  IF zoomed = <<>> THEN <<z>> ELSE <<zoomed[Len(zoomed)], z>>

\* fitted: the node lists given to the latest uninterrupted run of autoFit calls
\* and the viewport each call left, oldest first (at most two).
FitRecord(currentNodes, fit) ==
  LET f == [list |-> currentNodes, scale |-> fit.scale, offset |-> fit.offset]
  IN  IF fitted = <<>> THEN <<f>> ELSE <<fitted[Len(fitted)], f>>

(***************************************************************************)
(* The onInitActions effect (lines 78-86): the actions handed to the host  *)
(* close over the nodes, scale and offset of the render that registered    *)
(* them; the effect runs again when one of these changes.  registered is   *)
(* what the host's current actions have captured.                          *)
(***************************************************************************)
\* mutant: the actions keep the scale of the first render
Register_FirstScale(n, s, o) == [nodes |-> n, scale |-> InitScale, offset |-> o]

Register(n, s, o) == [nodes |-> n, scale |-> s, offset |-> o]

(***************************************************************************)
(* Initial state: the component is mounted with a document, its state is   *)
(* the useState defaults (lines 30-35) and the load effect has run once.   *)
(* cursor is the pointer position (clientX, clientY) that the next mouse   *)
(* or wheel event reports.                                                 *)
(***************************************************************************)
InitAt(s) ==
  \E d \in DocNames, rc \in Rects :
    /\ flow = d
    /\ nodes = Sanitize(Docs[d].nodes)
    /\ timers = <<Sanitize(Docs[d].nodes)>>
    /\ dragging = NoDrag
    /\ scale = s
    /\ offset = InitOffset
    /\ isPanning = FALSE
    /\ panStart = Pt(R(0), R(0))
    /\ rect = rc
    /\ cursor = InitCursor
    /\ registered = Register(Sanitize(Docs[d].nodes), s, InitOffset)
    /\ ev = Event("mount", "", 0)
    /\ zoomed = <<>>
    /\ fitted = <<>>
    /\ panFrom = <<>>
    /\ loading = FALSE
    /\ isDeploying = FALSE
    /\ abortControllerRef = NoController
    /\ requests = <<>>
    /\ ops = 0

Init == InitAt(InitScale)

\* The state after mounting and fourteen host zoomIn calls (0.8 * 1.1^14 > 3, so
\* the scale is clamped to 3) made before the deferred autoFit has run.
InitZoomed == InitAt(MaxScale)

(***************************************************************************)
(* Actions.                                                                *)
(***************************************************************************)
\* mutant: the loaded nodes are appended to the store instead of replacing it
Load_Merge(d) ==
  /\ UNCHANGED appVars
  /\ ops < MaxOps
  /\ ops' = ops + 1
  /\ flow' = d
  /\ nodes' = nodes \o Sanitize(Docs[d].nodes)
  /\ timers' = Append(timers, Sanitize(Docs[d].nodes))
  /\ registered' = Register(nodes', scale, offset)
  /\ ev' = Event("load", "", 0)
  /\ zoomed' = <<>>
  /\ fitted' = <<>>
  /\ UNCHANGED <<dragging, scale, offset, isPanning, panStart, rect, cursor, panFrom>>

\* The host supplies a new flow prop: the load effect replaces the store and
\* schedules autoFit(sanitized).
Load(d) ==
  /\ UNCHANGED appVars
  /\ ops < MaxOps
  /\ ops' = ops + 1
  /\ flow' = d
  /\ nodes' = Sanitize(Docs[d].nodes)
  /\ timers' = Append(timers, Sanitize(Docs[d].nodes))
  /\ registered' = Register(nodes', scale, offset)
  /\ ev' = Event("load", "", 0)
  /\ zoomed' = <<>>
  /\ fitted' = <<>>
  /\ UNCHANGED <<dragging, scale, offset, isPanning, panStart, rect, cursor, panFrom>>

\* mutant: the newest pending callback runs first
TimerFire_NewestFirst ==
  /\ UNCHANGED appVars
  /\ timers # <<>>
  /\ LET fit == autoFit(timers[Len(timers)], rect, scale, offset)
     IN  /\ scale' = fit.scale
         /\ offset' = fit.offset
         /\ fitted' = FitRecord(timers[Len(timers)], fit)
  /\ timers' = SubSeq(timers, 1, Len(timers) - 1)
  /\ registered' = Register(nodes, scale', offset')
  /\ ev' = Event("timer", "", 0)
  /\ zoomed' = <<>>
  /\ UNCHANGED <<nodes, dragging, isPanning, panStart, flow, rect, cursor, panFrom, ops>>

\* The oldest pending setTimeout callback runs autoFit on the node list it captured.
TimerFire ==
  /\ UNCHANGED appVars
  /\ timers # <<>>
  /\ LET fit == autoFit(Head(timers), rect, scale, offset)
     IN  /\ scale' = fit.scale
         /\ offset' = fit.offset
         /\ fitted' = FitRecord(Head(timers), fit)
  /\ timers' = Tail(timers)
  /\ registered' = Register(nodes, scale', offset')
  /\ ev' = Event("timer", "", 0)
  /\ zoomed' = <<>>
  /\ UNCHANGED <<nodes, dragging, isPanning, panStart, flow, rect, cursor, panFrom, ops>>

\* onWheel (lines 55-58): deltaY < 0 zooms in, otherwise out, anchored at the cursor.
Wheel(deltaY) ==
  /\ UNCHANGED appVars
  /\ ops < MaxOps
  /\ ops' = ops + 1
  /\ LET direction == IF deltaY < 0 THEN "in" ELSE "out"
         newScale == NewScale(scale, direction)
     IN  /\ offset' = ZoomOffset(offset, scale, newScale, cursor[1], cursor[2], rect)
         /\ scale' = newScale
         /\ ev' = Event("wheel", direction, deltaY)
         /\ zoomed' = ZoomRecord("wheel", direction)
  /\ registered' = Register(nodes, scale', offset')
  /\ fitted' = <<>>
  /\ UNCHANGED <<nodes, dragging, isPanning, panStart, flow, timers, rect, cursor, panFrom>>

\* The host calls the registered zoomIn / zoomOut: handleZoom without a cursor.
HostZoom(direction) ==
  /\ UNCHANGED appVars
  /\ ops < MaxOps
  /\ ops' = ops + 1
  /\ scale' = NewScale(registered.scale, direction)
  /\ registered' = Register(nodes, scale', offset)
  /\ ev' = Event("hostZoom", direction, 0)
  /\ zoomed' = ZoomRecord("hostZoom", direction)
  /\ fitted' = <<>>
  /\ UNCHANGED <<nodes, dragging, offset, isPanning, panStart, flow, timers, rect, cursor,
                 panFrom>>

\* The host calls the registered autoFit: autoFit(nodes).
HostAutoFit ==
  /\ UNCHANGED appVars
  /\ ops < MaxOps
  /\ ops' = ops + 1
  /\ LET fit == autoFit(registered.nodes, rect, scale, offset)
     IN  /\ scale' = fit.scale
         /\ offset' = fit.offset
         /\ fitted' = FitRecord(registered.nodes, fit)
  /\ registered' = Register(nodes, scale', offset')
  /\ ev' = Event("hostAutoFit", "", 0)
  /\ zoomed' = <<>>
  /\ UNCHANGED <<nodes, dragging, isPanning, panStart, flow, timers, rect, cursor, panFrom>>

\* onMouseDown of a node element (line 170).
NodeMouseDown(i) ==
  /\ UNCHANGED appVars
  /\ ops < MaxOps
  /\ ops' = ops + 1
  /\ i \in 1..Len(nodes)
  /\ dragging' = [id |-> nodes[i].id, startX |-> cursor[1], startY |-> cursor[2],
                  nodeX |-> nodes[i].position.x, nodeY |-> nodes[i].position.y]
  /\ ev' = Event("nodeDown", "", 0)
  /\ zoomed' = <<>>
  /\ fitted' = <<>>
  /\ UNCHANGED <<nodes, scale, offset, isPanning, panStart, flow, timers, rect, cursor,
                 registered, panFrom>>

\* onMouseDown of the container outside any node element (lines 139-143).
\* panFrom records the offset and the pointer position at this pointer-down.
CanvasMouseDown ==
  /\ UNCHANGED appVars
  /\ ops < MaxOps
  /\ ops' = ops + 1
  /\ isPanning' = TRUE
  /\ panStart' = Pt(Sub(R(cursor[1]), offset.x), Sub(R(cursor[2]), offset.y))
  /\ panFrom' = [offset |-> offset, cursor |-> cursor]
  /\ ev' = Event("canvasDown", "", 0)
  /\ zoomed' = <<>>
  /\ fitted' = <<>>
  /\ UNCHANGED <<nodes, dragging, scale, offset, flow, timers, rect, cursor, registered>>

\* window mousemove listener (lines 102-113): the pointer moves to p.
MouseMove(p) ==
  /\ UNCHANGED appVars
  /\ p # cursor
  /\ cursor' = p
  /\ IF dragging # NoDrag
     THEN /\ nodes' = MoveNode(nodes, dragging, p[1], p[2], scale)
          /\ UNCHANGED offset
     ELSE IF isPanning
          THEN /\ offset' = PanOffset(p[1], p[2], panStart)
               /\ UNCHANGED nodes
          ELSE UNCHANGED <<nodes, offset>>
  /\ registered' = Register(nodes', scale, offset')
  /\ ev' = Event("move", "", 0)
  /\ zoomed' = <<>>
  /\ fitted' = <<>>
  /\ UNCHANGED <<dragging, scale, isPanning, panStart, flow, timers, rect, panFrom, ops>>

\* mutant: the pan flag is not cleared
MouseUp_KeepsPanning ==
  /\ UNCHANGED appVars
  /\ dragging' = NoDrag
  /\ ev' = Event("up", "", 0)
  /\ zoomed' = <<>>
  /\ fitted' = <<>>
  /\ UNCHANGED <<nodes, scale, offset, isPanning, panStart, flow, timers, rect, cursor,
                 registered, panFrom, ops>>

\* window mouseup listener (line 114).
MouseUp ==
  /\ UNCHANGED appVars
  /\ dragging' = NoDrag
  /\ isPanning' = FALSE
  /\ ev' = Event("up", "", 0)
  /\ zoomed' = <<>>
  /\ fitted' = <<>>
  /\ UNCHANGED <<nodes, scale, offset, panStart, flow, timers, rect, cursor,
                 registered, panFrom, ops>>

Next ==
  \/ \E d \in DocNames : Load(d)
  \/ TimerFire
  \/ \E deltaY \in {-1, 1} : Wheel(deltaY)
  \/ \E direction \in {"in", "out"} : HostZoom(direction)
  \/ HostAutoFit
  \/ \E i \in 1..Len(nodes) : NodeMouseDown(i)
  \/ CanvasMouseDown
  \/ \E p \in Points : MouseMove(p)
  \/ MouseUp

Spec == Init /\ [][Next]_vars

SpecZoom == InitZoomed /\ [][Next]_vars

\* The browser runs every setTimeout callback whose delay has passed.  Of the
\* steps of Next only TimerFire takes the oldest callback off timers, so the
\* fairness condition names the TimerFire steps by that effect.
TimerRuns == timers # <<>> /\ timers' = Tail(timers)

SpecTimers == Spec /\ WF_timers(TimerRuns)

(***************************************************************************)
(* The host App (src/App.tsx): handleSend, stopGeneration and the          *)
(* completion of a generation request.  requests[k] is the k-th call of    *)
(* generateFlow: whether its controller has been aborted, and its outcome  *)
(* once the await of line 192 has returned or thrown ("" while in flight). *)
(* When the promise of a request settles is up to the network and the      *)
(* client library: any time after the call, also after an abort, and an    *)
(* aborted request may still resolve.                                      *)
(***************************************************************************)
\* handleSend(msgText, buildMode), lines 166-190; text is msgText || input
handleSend(text, buildMode) ==
  /\ buildMode \/ text # ""
  /\ ~loading
  /\ Len(requests) < MaxRequests
  /\ abortControllerRef' = Len(requests) + 1
  /\ isDeploying' = (buildMode \/ isDeploying)
  /\ loading' = TRUE
  /\ requests' = Append(requests, [build |-> buildMode, aborted |-> FALSE, outcome |-> ""])
  /\ UNCHANGED vizVars

\* stopGeneration, lines 105-112
stopGeneration ==
  /\ abortControllerRef # NoController
  /\ requests' = [requests EXCEPT ![abortControllerRef].aborted = TRUE]
  /\ loading' = FALSE
  /\ isDeploying' = FALSE
  /\ UNCHANGED <<abortControllerRef, vizVars>>

\* the await of request k returns or throws: lines 194-213, whose finally block
\* runs for every outcome
Complete(k, outcome) ==
  /\ k \in 1..Len(requests)
  /\ requests[k].outcome = ""
  /\ outcome = "AbortError" => requests[k].aborted
  /\ requests' = [requests EXCEPT ![k].outcome = outcome]
  /\ loading' = FALSE
  /\ isDeploying' = FALSE
  /\ abortControllerRef' = NoController
  /\ UNCHANGED vizVars

NextApp ==
  \/ \E text \in {"", "describe"}, buildMode \in BOOLEAN : handleSend(text, buildMode)
  \/ stopGeneration
  \/ \E k \in 1..MaxRequests, outcome \in {"success", "failure", "AbortError"} :
       Complete(k, outcome)

\* the App alone, with the visualizer as it is mounted
InitApp == Init /\ flow = "empty" /\ rect.width = 0

SpecApp == InitApp /\ [][NextApp]_vars

(***************************************************************************)
(* Properties.                                                             *)
(***************************************************************************)
InRange(s) == Leq(MinScale, s) /\ Leq(s, MaxScale)
Idle == dragging = NoDrag /\ ~isPanning
LastZoom == zoomed[Len(zoomed)]
\* the screen point of the cursor, relative to the container
CursorPoint(c) == Pt(R(c[1] - rect.left), R(c[2] - rect.top))
\* the world coordinate shown at screen coordinate x under offset o and scale s
WorldAt(x, o, s) == Div(Sub(x, o), s)
Unclamped(z, after) == Mul(z.scale, Factor(z.dir)) = after
Ids(ns) == [i \in 1..Len(ns) |-> ns[i].id]

\* C1: a zoom-in or zoom-out (wheel or host) applied to a scale within [0.1, 3.0]
\* leaves the scale within [0.1, 3.0].
C1_ZoomKeepsScaleInRange ==
  (zoomed # <<>> /\ InRange(LastZoom.scale)) => InRange(scale)

\* a zoom-in from a scale in range was cut down to 3.0
C1_Witness ==
  /\ zoomed # <<>>
  /\ InRange(LastZoom.scale)
  /\ LastZoom.dir = "in"
  /\ Less(MaxScale, Mul(LastZoom.scale, ZoomInFactor))
  /\ scale = MaxScale

\* C2: in every reachable state the viewport scale lies within [0.1, 3.0].
C2_ScaleInRange == InRange(scale)

\* C3: a wheel zoom at the cursor (deltaY < 0 in, deltaY > 0 out) keeps the world
\* point under the cursor where it is, with
\* offset' = p - (p - offset) * (scale' / scale), clamped or not.
C3_WheelKeepsAnchor ==
  [][ev'.op = "wheel" =>
       LET p == CursorPoint(cursor)
           ratio == Div(scale', scale)
       IN  /\ (ev'.deltaY < 0) => scale' = Clamp(Mul(scale, ZoomInFactor))
           /\ (ev'.deltaY > 0) => scale' = Clamp(Mul(scale, ZoomOutFactor))
           /\ WorldAt(p.x, offset'.x, scale') = WorldAt(p.x, offset.x, scale)
           /\ WorldAt(p.y, offset'.y, scale') = WorldAt(p.y, offset.y, scale)
           /\ offset'.x = Sub(p.x, Mul(Sub(p.x, offset.x), ratio))
           /\ offset'.y = Sub(p.y, Mul(Sub(p.y, offset.y), ratio))]_vars

\* a wheel zoom whose new scale was clamped and whose offset moved
C3_Witness ==
  /\ ev.op = "wheel"
  /\ ~Unclamped(LastZoom, scale)
  /\ offset # LastZoom.offset

\* an unclamped wheel zoom in followed at once by an unclamped wheel zoom out at
\* the same cursor position
ZoomedInThenOut ==
  /\ Len(zoomed) = 2
  /\ zoomed[1].op = "wheel" /\ zoomed[1].dir = "in"
  /\ zoomed[2].op = "wheel" /\ zoomed[2].dir = "out"
  /\ Unclamped(zoomed[1], zoomed[2].scale)
  /\ Unclamped(zoomed[2], scale)

\* C4 (as claimed): zooming in and then out at the same anchor, neither step
\* clamped, returns scale and offset to their values before the pair.
C4_ZoomInOutRestores ==
  ZoomedInThenOut => scale = zoomed[1].scale /\ offset = zoomed[1].offset

\* C4 (amended): zooming in and then out at the same anchor p, neither step
\* clamped, leaves scale at 0.99 times its value before the pair and offset at
\* p - (p - offset) * 0.99, so the world point under p is the one it was.
C4_ZoomInOutShrinks ==
  ZoomedInThenOut =>
    LET p == CursorPoint(cursor)
        k == Mul(ZoomInFactor, ZoomOutFactor)
        z == zoomed[1]
    IN  /\ k = <<99, 100>>
        /\ scale = Mul(z.scale, k)
        /\ offset = Pt(Sub(p.x, Mul(Sub(p.x, z.offset.x), k)),
                       Sub(p.y, Mul(Sub(p.y, z.offset.y), k)))
        /\ WorldAt(p.x, offset.x, scale) = WorldAt(p.x, z.offset.x, z.scale)
        /\ WorldAt(p.y, offset.y, scale) = WorldAt(p.y, z.offset.y, z.scale)

C4_Witness == ZoomedInThenOut /\ offset # zoomed[1].offset

\* C5: a node drag and a canvas pan are never both active.
C5_ModesExclusive == ~(dragging # NoDrag /\ isPanning)

\* C6: a pointer-up returns the interaction state to Idle; Idle lasts until the
\* next pointer-down, and a pointer-move in Idle changes neither the node
\* positions nor the offset.
C6_UpReturnsToIdle ==
  [][/\ ev'.op = "up" => Idle'
     /\ (Idle /\ ev'.op \notin {"nodeDown", "canvasDown"}) => Idle'
     /\ (Idle /\ ev'.op = "move") => (nodes' = nodes /\ offset' = offset)]_vars

\* a pointer-move with nothing active, after a drag that moved a node has ended
C6_Witness ==
  /\ ev.op = "move"
  /\ Idle
  /\ nodes # Sanitize(Docs[flow].nodes)

\* C7: a pointer-move during a node drag puts the dragged node at (position
\* captured at drag start) + (pointer - pointer captured at drag start) / scale.
C7_DragPosition ==
  [][(ev'.op = "move" /\ dragging # NoDrag) =>
       \A i \in 1..Len(nodes) :
         nodes[i].id = dragging.id =>
           /\ Mul(Sub(nodes'[i].position.x, dragging.nodeX), scale)
                = R(cursor'[1] - dragging.startX)
           /\ Mul(Sub(nodes'[i].position.y, dragging.nodeY), scale)
                = R(cursor'[2] - dragging.startY)]_vars

\* a pointer-move has carried the dragged node away from its drag-start position
C7_Witness ==
  /\ ev.op = "move"
  /\ dragging # NoDrag
  /\ \E i \in 1..Len(nodes) :
       /\ nodes[i].id = dragging.id
       /\ nodes[i].position.x # dragging.nodeX
       /\ nodes[i].position.y # dragging.nodeY

\* C8: a drag update replaces the position of the node with the dragged id only:
\* the other nodes, the order of the list, every other field of the dragged node,
\* scale and offset are unchanged, and so is the store if no node has that id.
C8_DragFrame ==
  [][(ev'.op = "move" /\ dragging # NoDrag) =>
       /\ Len(nodes') = Len(nodes)
       /\ \A i \in 1..Len(nodes) :
            IF nodes[i].id = dragging.id
            THEN nodes'[i] = [nodes[i] EXCEPT !.position = nodes'[i].position]
            ELSE nodes'[i] = nodes[i]
       /\ (\A i \in 1..Len(nodes) : nodes[i].id # dragging.id) => nodes' = nodes
       /\ scale' = scale
       /\ offset' = offset]_vars

\* a drag update moved one node of a store that holds other nodes
C8_Witness ==
  /\ ev.op = "move"
  /\ dragging # NoDrag
  /\ Len(nodes) > 1
  /\ \E i \in 1..Len(nodes) :
       /\ nodes[i].id = dragging.id
       /\ nodes[i].position # Sanitize(Docs[flow].nodes)[i].position

\* C9: the node store holds exactly the nodes of the most recently loaded
\* document: same ids, same order, same count.
C9_StoreIsLastLoaded == Ids(nodes) = Ids(Docs[flow].nodes)

\* a two-node document loaded after a three-node one, and a node dragged since
C9_Witness ==
  /\ Len(timers) = 2
  /\ Len(timers[1]) = 3
  /\ Len(nodes) = 2
  /\ nodes # Sanitize(Docs[flow].nodes)

\* the latest autoFit call and what it was given
LastFit == fitted[Len(fitted)]
FitRan == fitted # <<>> /\ LastFit.list # <<>>
\* screen coordinate of world coordinate w under offset o and scale s
ScreenAt(w, o, s) == Add(Mul(w, s), o)

\* C10: autoFit on an empty node set changes neither scale nor offset.
C10_EmptyFitIsNoOp ==
  [][(\/ ev'.op = "hostAutoFit" /\ nodes = <<>>
      \/ ev'.op = "timer" /\ timers # <<>> /\ Head(timers) = <<>>) =>
       (scale' = scale /\ offset' = offset)]_vars

\* the host's autoFit has run on an empty store after a zoom
C10_Witness ==
  /\ ev.op = "hostAutoFit"
  /\ nodes = <<>>
  /\ scale # InitScale

\* C11: after autoFit on a non-empty node set, whatever the viewport size, the
\* scale is min(fit-width scale, fit-height scale, 0.8), hence at most 0.8.
C11_FitScaleIsCappedMin ==
  FitRan =>
    LET b == FitBounds(LastFit.list, 1, <<>>)
        fitWidth == Div(R(rect.width - FitPadding), Sub(b.maxX, b.minX))
        fitHeight == Div(R(rect.height - FitPadding), Sub(b.maxY, b.minY))
    IN  /\ scale = MinR(MinR(fitWidth, fitHeight), <<4, 5>>)
        /\ Leq(scale, <<4, 5>>)

\* autoFit ran on a node set that would fit at a scale above 0.8, moved the
\* offset and set the scale to 0.8
C11_Witness ==
  /\ FitRan
  /\ offset # InitOffset
  /\ LET b == FitBounds(LastFit.list, 1, <<>>)
     IN  /\ Less(<<4, 5>>, Div(R(rect.width - FitPadding), Sub(b.maxX, b.minX)))
         /\ Less(<<4, 5>>, Div(R(rect.height - FitPadding), Sub(b.maxY, b.minY)))
  /\ scale = <<4, 5>>

\* the largest and the smallest of a non-empty set of numbers
MaxOf(S) == CHOOSE m \in S : \A x \in S : Leq(x, m)
MinOf(S) == CHOOSE m \in S : \A x \in S : Leq(m, x)
\* the bounding box of the rectangles of ns, each from the node's position to
\* its position plus its own width and height
RectBounds(ns) ==
  LET I == 1..Len(ns)
  IN  [minX |-> MinOf({ns[i].position.x : i \in I}),
       minY |-> MinOf({ns[i].position.y : i \in I}),
       maxX |-> MaxOf({Add(ns[i].position.x, R(ns[i].width)) : i \in I}),
       maxY |-> MaxOf({Add(ns[i].position.y, R(ns[i].height)) : i \in I})]
Half(a) == Div(a, R(2))

\* C12: after autoFit on a non-empty node set, the centre of the bounding box of
\* the node rectangles (position to position + the node's width and height) is
\* shown at the centre of the viewport.
C12_FitCentresNodeRectangles ==
  FitRan =>
    LET b == RectBounds(LastFit.list)
    IN  /\ ScreenAt(Half(Add(b.minX, b.maxX)), offset.x, scale) = Half(R(rect.width))
        /\ ScreenAt(Half(Add(b.minY, b.maxY)), offset.y, scale) = Half(R(rect.height))

\* C13: after autoFit on a non-empty node set in a viewport wider and taller
\* than the padding, every node rectangle (position to position + size) is shown
\* inside the viewport [0, width] x [0, height].
C13_FitShowsEveryNode ==
  (FitRan /\ rect.width > FitPadding /\ rect.height > FitPadding) =>
    \A i \in 1..Len(LastFit.list) :
      LET n == LastFit.list[i]
          left == ScreenAt(n.position.x, offset.x, scale)
          top == ScreenAt(n.position.y, offset.y, scale)
          right == ScreenAt(Add(n.position.x, R(n.width)), offset.x, scale)
          bottom == ScreenAt(Add(n.position.y, R(n.height)), offset.y, scale)
      IN  /\ Leq(R(0), left) /\ Leq(right, R(rect.width))
          /\ Leq(R(0), top) /\ Leq(bottom, R(rect.height))

\* C14: two autoFit calls in succession on the same node placements and the same
\* viewport size: the second call leaves scale and offset as the first call left
\* them (fitted[1] holds the viewport the first call left).
C14_FitIsIdempotent ==
  (Len(fitted) = 2 /\ fitted[1].list = fitted[2].list) =>
    (scale = fitted[1].scale /\ offset = fitted[1].offset)

\* two autoFit calls in succession on the same non-empty node list, which have
\* taken both the scale and the offset away from their initial values
C14_Witness ==
  /\ Len(fitted) = 2
  /\ fitted[1].list = fitted[2].list
  /\ fitted[1].list # <<>>
  /\ scale # InitScale
  /\ offset # InitOffset

\* C15: every deferred autoFit scheduled by a load eventually runs, and when the
\* last pending one has run, scale and offset are those autoFit computes for the
\* most recently loaded document (if it has a node).
C15_DeferredFitOfLatestLoad ==
  /\ (timers # <<>>) ~> (timers = <<>>)
  /\ [][(ev'.op = "timer" /\ timers' = <<>> /\ Docs[flow].nodes # <<>>) =>
          LET fit == autoFit(Sanitize(Docs[flow].nodes), rect, scale, offset)
          IN  scale' = fit.scale /\ offset' = fit.offset]_vars

\* two documents with different nodes were loaded in succession and both deferred
\* callbacks have run, the one of the later load last
C15_Witness ==
  /\ ev.op = "timer"
  /\ timers = <<>>
  /\ Len(fitted) = 2
  /\ fitted[1].list # <<>>
  /\ fitted[2].list # <<>>
  /\ Ids(fitted[1].list) # Ids(fitted[2].list)
  /\ Ids(fitted[2].list) = Ids(nodes)

\* C16: a pointer-move while a pan is active sets
\* offset = (offset at pan start) + (pointer - pointer at pan start) and leaves
\* the scale and every node position as they are.
C16_PanMoveIsAbsolute ==
  [][(ev'.op = "move" /\ isPanning) =>
       /\ offset'.x = Add(panFrom.offset.x, R(cursor'[1] - panFrom.cursor[1]))
       /\ offset'.y = Add(panFrom.offset.y, R(cursor'[2] - panFrom.cursor[2]))
       /\ scale' = scale
       /\ nodes' = nodes]_vars

InStore(nodeId) == \E i \in 1..Len(nodes) : nodes[i].id = nodeId
Listed(anchors, handleId) == \E k \in 1..Len(anchors) : anchors[k] = handleId
\* a + k for a number a = <<n, d>> in lowest terms and an integer k
Plus(a, k) == <<a[1] + k * a[2], a[2]>>
\* the position of slot 0 of a node's list for a direction
FirstSlot(node, type) ==
  Pt(IF type = "input" THEN node.position.x ELSE Plus(node.position.x, 320),
     Plus(node.position.y, 85))

\* C17: for every edge drawn, anchor resolution yields (0,0) for an end whose
\* node id is not in the store, and the position of slot 0 for an end whose
\* anchor id is not in the node's list for the direction (an empty list
\* included); so an edge whose targetHandle is unknown ends where an edge to the
\* target's first input anchor ends.
C17_AnchorFallback ==
  \A e \in 1..Len(Edges) :
    LET edge == Edges[e]
        sourceHandle == HandleOf(edge.sourceHandle)
        targetHandle == HandleOf(edge.targetHandle)
    IN  /\ ~InStore(edge.source) => EdgeStart(edge) = Pt(R(0), R(0))
        /\ ~InStore(edge.target) => EdgeEnd(edge) = Pt(R(0), R(0))
        /\ \A i \in 1..Len(nodes) :
             LET node == nodes[i]
             IN  /\ (node.id = edge.source
                     /\ ~Listed(node.data.outputAnchors, sourceHandle)) =>
                      EdgeStart(edge) = FirstSlot(node, "output")
                 /\ (node.id = edge.target
                     /\ ~Listed(node.data.inputAnchors, targetHandle)) =>
                      /\ EdgeEnd(edge) = FirstSlot(node, "input")
                      /\ node.data.inputAnchors # <<>> =>
                           EdgeEnd(edge) =
                             getAnchorPos(edge.target, node.data.inputAnchors[1], "input")

\* the store holds a dragged node that is the target of an edge with an unknown
\* targetHandle, and another edge names a target that is not in the store
C17_Witness ==
  /\ \E e \in 1..Len(Edges), i \in 1..Len(nodes) :
       /\ nodes[i].id = Edges[e].target
       /\ nodes[i].position # Sanitize(Docs[flow].nodes)[i].position
       /\ nodes[i].data.inputAnchors # <<>>
       /\ ~Listed(nodes[i].data.inputAnchors, HandleOf(Edges[e].targetHandle))
       /\ EdgeEnd(Edges[e]) = FirstSlot(nodes[i], "input")
  /\ \E e \in 1..Len(Edges) :
       ~InStore(Edges[e].target) /\ EdgeEnd(Edges[e]) = Pt(R(0), R(0))

\* the place of handleId in anchors counted from 0, where it is listed
IndexIn(anchors, handleId) ==
  CHOOSE k \in 0..(Len(anchors) - 1) :
    anchors[k + 1] = handleId /\ \A j \in 1..k : anchors[j] # handleId

\* C18: in every state, an edge starts at the source node's current position
\* plus (320, 85 + 45 * index of sourceHandle in the node's output anchors) and
\* ends at the target node's current position plus (0, 85 + 45 * index of
\* targetHandle in the node's input anchors), whatever the node's width.
C18_EdgeEndPoints ==
  \A e \in 1..Len(Edges), i \in 1..Len(nodes) :
    LET edge == Edges[e]
        node == nodes[i]
        sourceHandle == HandleOf(edge.sourceHandle)
        targetHandle == HandleOf(edge.targetHandle)
    IN  /\ (node.id = edge.source /\ Listed(node.data.outputAnchors, sourceHandle)) =>
             EdgeStart(edge) =
               Pt(Plus(node.position.x, 320),
                  Plus(node.position.y,
                       85 + 45 * IndexIn(node.data.outputAnchors, sourceHandle)))
        /\ (node.id = edge.target /\ Listed(node.data.inputAnchors, targetHandle)) =>
             EdgeEnd(edge) =
               Pt(node.position.x,
                  Plus(node.position.y,
                       85 + 45 * IndexIn(node.data.inputAnchors, targetHandle)))

\* an edge leaves the second output anchor of a node that is 200 wide and has
\* been dragged
C18_Witness ==
  \E e \in 1..Len(Edges), i \in 1..Len(nodes) :
    /\ nodes[i].id = Edges[e].source
    /\ nodes[i].width = 200
    /\ nodes[i].position # Sanitize(Docs[flow].nodes)[i].position
    /\ Listed(nodes[i].data.outputAnchors, HandleOf(Edges[e].sourceHandle))
    /\ IndexIn(nodes[i].data.outputAnchors, HandleOf(Edges[e].sourceHandle)) = 1
    /\ EdgeStart(Edges[e]) =
         Pt(Plus(nodes[i].position.x, 320), Plus(nodes[i].position.y, 130))

\* C19: the actions registered with the host have captured the current nodes,
\* scale and offset; hence the host's autoFit fits the nodes of the store, and
\* two consecutive host zoomIn calls multiply the scale by 1.1 twice, each
\* product clamped.
C19_HostActionsAreCurrent ==
  /\ registered = [nodes |-> nodes, scale |-> scale, offset |-> offset]
  /\ (ev.op = "hostAutoFit") =>
       /\ LastFit.list = nodes
       /\ nodes # <<>> =>
            LET fs == FitScale(FitBounds(nodes, 1, <<>>), rect)
            IN  scale = fs /\ offset = FitOffset(FitBounds(nodes, 1, <<>>), rect, fs)
  /\ (/\ Len(zoomed) = 2
      /\ zoomed[1].op = "hostZoom" /\ zoomed[1].dir = "in"
      /\ zoomed[2].op = "hostZoom" /\ zoomed[2].dir = "in") =>
       scale = Clamp(Mul(Clamp(Mul(zoomed[1].scale, <<11, 10>>)), <<11, 10>>))

\* two consecutive host zoomIn calls, neither clamped, have raised the scale
\* to 1.21 times what it was
C19_Witness ==
  /\ Len(zoomed) = 2
  /\ zoomed[1].op = "hostZoom" /\ zoomed[1].dir = "in"
  /\ zoomed[2].op = "hostZoom" /\ zoomed[2].dir = "in"
  /\ scale = Mul(zoomed[1].scale, <<121, 100>>)
  /\ registered.scale = scale

\* C20: when a wheel zoom at the cursor p happens during a pan, the next
\* pointer-move of the pan shows the world point that the zoom kept under p at
\* p + (pointer displacement since the zoom).
C20_PanKeepsZoomCorrection ==
  [][(ev.op = "wheel" /\ ev'.op = "move" /\ isPanning /\ dragging = NoDrag) =>
       LET p == CursorPoint(cursor)
       IN  /\ ScreenAt(WorldAt(p.x, offset.x, scale), offset'.x, scale')
                = Add(p.x, R(cursor'[1] - cursor[1]))
           /\ ScreenAt(WorldAt(p.y, offset.y, scale), offset'.y, scale')
                = Add(p.y, R(cursor'[2] - cursor[2]))]_vars

\* C21: when the deferred autoFit of the latest load runs, it fits the node
\* placements that the store holds at that moment, dragged nodes included.
C21_DeferredFitUsesStore ==
  (ev.op = "timer" /\ timers = <<>> /\ nodes # <<>>) =>
    LET b == FitBounds(nodes, 1, <<>>)
        fs == FitScale(b, rect)
    IN  scale = fs /\ offset = FitOffset(b, rect, fs)

\* C22: a load puts every node at the position the document supplies ((0,0) if
\* it supplies none), and the nodes stay there over the steps that follow the
\* load directly unless the step is a pointer-down on a node; so a pointer-move
\* of a drag that was active at the load moves no node of the new document.
C22_LoadedPositionsStay ==
  [][/\ ev'.op = "load" => nodes' = Sanitize(Docs[flow'].nodes)
     /\ (ev.op = "load" /\ ev'.op \notin {"load", "nodeDown"}) =>
          \A i \in 1..Len(nodes') :
            nodes'[i].position = Sanitize(Docs[flow].nodes)[i].position]_vars

InFlight(k) == requests[k].outcome = ""

\* C23: every generation request that is in flight and not aborted has loading
\* true and its controller in abortControllerRef (hence there is at most one
\* such request and stopGeneration can abort it).
C23_InFlightRequestIsTracked ==
  \A k \in 1..Len(requests) :
    (InFlight(k) /\ ~requests[k].aborted) => (loading /\ abortControllerRef = k)

====
